---- MODULE Spec2Model ----
(***************************************************************************)
(* Model of the flashlight screen (src/app/index.tsx): the React state of  *)
(* the App component, the closures captured by the accelerometer listener  *)
(* and by the rendered buttons, the strobe interval, the S.O.S interval(s) *)
(* and a discrete clock.                                                   *)
(*                                                                         *)
(* Units: time is counted in ticks of 100 ms (Date.now() / 100); the       *)
(* accelerometer axes are counted in tenths of the device unit, so the     *)
(* comparison Math.sqrt(x*x+y*y+z*z) > 1.5 is made on the squares.         *)
(***************************************************************************)
EXTENDS Integers, Sequences, FiniteSets

VARIABLES
    permission,      \* useCameraPermissions(): "loading" (null), "denied", "granted"
    mounted,         \* the component is mounted
    flashOn,         \* useState(false)
    isStrobeOn,      \* useState(false)
    isSosOn,         \* useState(false)
    lastShake,       \* useState(0)
    data,            \* useState({x: 0, y: 0, z: 0})
    isShake,         \* useState(true)
    subLastShake,    \* lastShake as captured by the subscribed listener
    subIsShake,      \* isShake as captured by the subscribed listener
    rFlashOn,        \* flashOn as captured by the rendered manual onPress
    rIsStrobeOn,     \* isStrobeOn as of the last render (button tree)
    rIsSosOn,        \* isSosOn as of the last render (button tree, disabled)
    strobeTimers,    \* live setInterval timers of the strobe effect (due times)
    strobeInterval,  \* strobeInterval of the last effect run: 0 = undefined
    sosTimers,       \* live setInterval timers of playSosSignal
    sosFlips,        \* flips issued by the S.O.S timer since the last invocation
    vibrate,         \* Vibration.vibrate(ms) issued by the last step, 0 = none
    press,           \* the control whose onPress the last step ran, "none" if none
    now              \* Date.now() in ticks

vars == <<permission, mounted, flashOn, isStrobeOn, isSosOn, lastShake, data,
          isShake, subLastShake, subIsShake, rFlashOn, rIsStrobeOn, rIsSosOn,
          strobeTimers, strobeInterval, sosTimers, sosFlips, vibrate, press, now>>

----------------------------------------------------------------------------
(* Bounds of the model *)

\* Date.now() at construction; lastShake starts at 0, far in the past.
StartTime == 11

\* Ticks explored after construction.
Horizon == 31

MaxTime == StartTime + Horizon

----------------------------------------------------------------------------
(* Program constants *)

\* SHAKE_THRESHOLD = 1.5, in tenths
SHAKE_THRESHOLD == 15

\* SHAKE_DELAY = 1000 ms, in ticks
SHAKE_DELAY == 10

\* MORSE_SOS seconds * 1000 ms, in ticks
MORSE_SOS == <<3, 3, 3, 9, 9, 9, 3, 3, 3>>

\* setInterval(..., 100) of the strobe effect, in ticks
STROBE_INTERVAL == 1

\* Vibration.vibrate(200) of a shake
SHAKE_VIBRATION == 200

\* Vibration.vibrate(100) of the manual toggle
PRESS_VIBRATION == 100

\* Accelerometer readings fed to the listener (tenths): at rest (magnitude
\* 1.0), magnitude exactly 1.5, and the shake (2, 2, 2) of the example scenario.
Samples ==
    { [x |-> 0,   y |-> 0,  z |-> 10],
      [x |-> -9,  y |-> 12, z |-> 0],
      [x |-> 20,  y |-> 20, z |-> 20] }

----------------------------------------------------------------------------
(* Helpers *)

\* x * x + y * y + z * z, the square of totalForce
totalForceSq(s) == s.x * s.x + s.y * s.y + s.z * s.z

\* Mutant of OverThreshold: totalForce >= SHAKE_THRESHOLD
OverThresholdInclusive(s) == totalForceSq(s) >= SHAKE_THRESHOLD * SHAKE_THRESHOLD

\* totalForce > SHAKE_THRESHOLD
OverThreshold(s) == totalForceSq(s) > SHAKE_THRESHOLD * SHAKE_THRESHOLD

\* now - lastShake > SHAKE_DELAY, with the lastShake the listener captured
DebounceElapsed == now - subLastShake > SHAKE_DELAY

RemoveAt(seq, i) == SubSeq(seq, 1, i - 1) \o SubSeq(seq, i + 1, Len(seq))

\* Mutant of MainUI: the main interface is rendered whatever the permission
MainUIWithoutPermission == mounted

\* The main interface is on screen: mounted and past both permission screens.
MainUI == mounted /\ permission = "granted"

\* The last render no longer shows the current state.
Stale ==
    \/ rFlashOn # flashOn
    \/ rIsStrobeOn # isStrobeOn
    \/ rIsSosOn # isSosOn
    \/ subLastShake # lastShake
    \/ subIsShake # isShake

\* A render commits: the button tree and the handlers capture the new state,
\* and the accelerometer effect re-subscribes on [lastShake, isShake].
CommitRender ==
    /\ rFlashOn' = flashOn'
    /\ rIsStrobeOn' = isStrobeOn'
    /\ rIsSosOn' = isSosOn'
    /\ subLastShake' = lastShake'
    /\ subIsShake' = isShake'

Init ==
    /\ permission = "loading"
    /\ mounted = TRUE
    /\ flashOn = FALSE
    /\ isStrobeOn = FALSE
    /\ isSosOn = FALSE
    /\ lastShake = 0
    /\ data = [x |-> 0, y |-> 0, z |-> 0]
    /\ isShake = TRUE
    /\ subLastShake = 0
    /\ subIsShake = TRUE
    /\ rFlashOn = FALSE
    /\ rIsStrobeOn = FALSE
    /\ rIsSosOn = FALSE
    /\ strobeTimers = <<>>
    /\ strobeInterval = 0
    /\ sosTimers = <<>>
    /\ sosFlips = 0
    /\ vibrate = 0
    /\ press = "none"
    /\ now = StartTime

----------------------------------------------------------------------------
(* Rendered controls: what the last render put on screen *)

\* Mutant of ManualEnabled: the manual button is disabled by isSosOn only
ManualEnabledUnlessSos == ~rIsSosOn

\* The normal-mode branch of isStrobeOn || isSosOn ? ... : ..., whose manual
\* button has an onPress and disabled={isSosOn}.
ManualEnabled == ~(rIsStrobeOn \/ rIsSosOn) /\ ~rIsSosOn

\* The branch of isSosOn ? ... : ... that holds the strobe toggle.
StrobeEnabled == ~rIsSosOn

\* Mutant of SosEnabled: the trigger is never disabled
SosAlwaysEnabled == TRUE

\* disabled={isSosOn} of the S.O.S trigger.
SosEnabled == ~rIsSosOn

----------------------------------------------------------------------------
(* Camera permission *)

\* The permission hook resolves from null.
PermissionLoaded ==
    /\ press' = "none"
    /\ mounted
    /\ permission = "loading"
    /\ \E p \in {"denied", "granted"} : permission' = p
    /\ vibrate' = 0
    /\ UNCHANGED <<mounted, flashOn, isStrobeOn, isSosOn, lastShake, data, isShake,
                   subLastShake, subIsShake, rFlashOn, rIsStrobeOn, rIsSosOn,
                   strobeTimers, strobeInterval, sosTimers, sosFlips, now>>

\* "Permitir acesso" on the permission screen.
RequestPermission ==
    /\ press' = "permission"
    /\ mounted
    /\ permission = "denied"
    /\ \E p \in {"denied", "granted"} : permission' = p
    /\ vibrate' = 0
    /\ UNCHANGED <<mounted, flashOn, isStrobeOn, isSosOn, lastShake, data, isShake,
                   subLastShake, subIsShake, rFlashOn, rIsStrobeOn, rIsSosOn,
                   strobeTimers, strobeInterval, sosTimers, sosFlips, now>>

----------------------------------------------------------------------------
(* Accelerometer listener *)

\* Mutant of ShakeDetected: the listener does not test isShake
ShakeDetectedIgnoringFlag(s) == OverThreshold(s) /\ DebounceElapsed

\* Mutant of ShakeDetected: shakes are detected in Idle only
ShakeDetectedIdleOnly(s) ==
    OverThreshold(s) /\ DebounceElapsed /\ subIsShake /\ ~isStrobeOn /\ ~isSosOn

\* The condition of the if in the listener, on the values it captured.
ShakeDetected(s) == OverThreshold(s) /\ DebounceElapsed /\ subIsShake

\* One accelerometer sample delivered to the subscribed listener.
Sample(s) ==
    /\ press' = "none"
    /\ mounted
    /\ data' = s
    /\ IF ShakeDetected(s)
       THEN /\ lastShake' = now
            /\ flashOn' = ~flashOn
            /\ vibrate' = SHAKE_VIBRATION
       ELSE /\ UNCHANGED <<lastShake, flashOn>>
            /\ vibrate' = 0
    /\ UNCHANGED <<permission, mounted, isStrobeOn, isSosOn, isShake,
                   subLastShake, subIsShake, rFlashOn, rIsStrobeOn, rIsSosOn,
                   strobeTimers, strobeInterval, sosTimers, sosFlips, now>>

\* The render and the effects that follow state set outside a press (by the
\* listener or by a timer).
Render ==
    /\ press' = "none"
    /\ mounted
    /\ Stale
    /\ UNCHANGED <<flashOn, isStrobeOn, isSosOn, lastShake, isShake>>
    /\ CommitRender
    /\ vibrate' = 0
    /\ UNCHANGED <<permission, mounted, data, strobeTimers, strobeInterval,
                   sosTimers, sosFlips, now>>

----------------------------------------------------------------------------
(* Strobe *)

\* Mutant of StrobeCleanup: the interval is never cleared
StrobeCleanupNothing(timers) == timers

\* return () => clearInterval(strobeInterval), of the previous effect run
StrobeCleanup(timers) ==
    IF strobeInterval = 0 THEN timers ELSE RemoveAt(timers, strobeInterval)

\* The strobe toggle: setIsStrobeOn(prev => !prev), the render, and the
\* strobe effect on [isStrobeOn].
PressStrobe ==
    /\ press' = "strobe"
    /\ MainUI
    /\ StrobeEnabled
    /\ isStrobeOn' = ~isStrobeOn
    /\ IF isStrobeOn'
       THEN /\ strobeTimers' = Append(StrobeCleanup(strobeTimers), now + STROBE_INTERVAL)
            /\ strobeInterval' = Len(strobeTimers')
            /\ flashOn' = flashOn
       ELSE /\ strobeTimers' = StrobeCleanup(strobeTimers)
            /\ strobeInterval' = 0
            /\ flashOn' = FALSE
    /\ UNCHANGED <<isSosOn, lastShake, isShake>>
    /\ CommitRender
    /\ vibrate' = 0
    /\ UNCHANGED <<permission, mounted, data, sosTimers, sosFlips, now>>

\* Mutant of StrobeFire: the callback does not flip flashOn
StrobeFireNoFlip(i) ==
    /\ press' = "none"
    /\ strobeTimers[i] = now
    /\ strobeTimers' = [strobeTimers EXCEPT ![i] = now + STROBE_INTERVAL]
    /\ vibrate' = 0
    /\ UNCHANGED <<permission, mounted, flashOn, isStrobeOn, isSosOn, lastShake, data,
                   isShake, subLastShake, subIsShake, rFlashOn, rIsStrobeOn, rIsSosOn,
                   strobeInterval, sosTimers, sosFlips, now>>

\* The callback of the strobe interval.
StrobeFire(i) ==
    /\ press' = "none"
    /\ strobeTimers[i] = now
    /\ flashOn' = ~flashOn
    /\ strobeTimers' = [strobeTimers EXCEPT ![i] = now + STROBE_INTERVAL]
    /\ vibrate' = 0
    /\ UNCHANGED <<permission, mounted, isStrobeOn, isSosOn, lastShake, data, isShake,
                   subLastShake, subIsShake, rFlashOn, rIsStrobeOn, rIsSosOn,
                   strobeInterval, sosTimers, sosFlips, now>>

----------------------------------------------------------------------------
(* S.O.S *)

\* The timer playSosSignal creates: let index = 0 and
\* setInterval(..., MORSE_SOS[index] * 1000).
NewSosTimer ==
    [index |-> 0, delay |-> MORSE_SOS[0 + 1], due |-> now + MORSE_SOS[0 + 1]]

\* Mutant of PressSos: playSosSignal also switches strobe mode off
PressSosStopsStrobe ==
    /\ press' = "sos"
    /\ MainUI
    /\ SosEnabled
    /\ isSosOn' = TRUE
    /\ isStrobeOn' = FALSE
    /\ sosTimers' = Append(sosTimers, NewSosTimer)
    /\ sosFlips' = 0
    /\ UNCHANGED <<flashOn, lastShake, isShake>>
    /\ CommitRender
    /\ vibrate' = 0
    /\ UNCHANGED <<permission, mounted, data, strobeTimers, strobeInterval, now>>

\* onPress={playSosSignal}, and the render that follows.
PressSos ==
    /\ press' = "sos"
    /\ MainUI
    /\ SosEnabled
    /\ isSosOn' = TRUE
    /\ sosTimers' = Append(sosTimers, NewSosTimer)
    /\ sosFlips' = 0
    /\ UNCHANGED <<flashOn, isStrobeOn, lastShake, isShake>>
    /\ CommitRender
    /\ vibrate' = 0
    /\ UNCHANGED <<permission, mounted, data, strobeTimers, strobeInterval, now>>

\* Mutant of SosContinues: index <= MORSE_SOS.length
SosContinuesOffByOne(t) == t.index <= Len(MORSE_SOS)

\* index < MORSE_SOS.length
SosContinues(t) == t.index < Len(MORSE_SOS)

\* Mutant of SosFire: the completing firing does not call setIsSosOn(false)
SosFireKeepsFlag(i) ==
    /\ press' = "none"
    /\ sosTimers[i].due = now
    /\ IF SosContinues(sosTimers[i])
       THEN /\ flashOn' = IF mounted THEN ~flashOn ELSE flashOn
            /\ sosTimers' = [sosTimers EXCEPT ![i].index = @ + 1,
                                              ![i].due = now + sosTimers[i].delay]
            /\ sosFlips' = sosFlips + 1
       ELSE /\ sosTimers' = RemoveAt(sosTimers, i)
            /\ flashOn' = IF mounted THEN FALSE ELSE flashOn
            /\ UNCHANGED sosFlips
    /\ vibrate' = 0
    /\ UNCHANGED <<permission, mounted, isStrobeOn, isSosOn, lastShake, data, isShake,
                   subLastShake, subIsShake, rFlashOn, rIsStrobeOn, rIsSosOn,
                   strobeTimers, strobeInterval, now>>

\* The callback of the S.O.S interval. State set after the component has
\* been unmounted is dropped.
SosFire(i) ==
    /\ press' = "none"
    /\ sosTimers[i].due = now
    /\ IF SosContinues(sosTimers[i])
       THEN /\ flashOn' = IF mounted THEN ~flashOn ELSE flashOn
            /\ sosTimers' = [sosTimers EXCEPT ![i].index = @ + 1,
                                              ![i].due = now + sosTimers[i].delay]
            /\ sosFlips' = sosFlips + 1
            /\ UNCHANGED isSosOn
       ELSE /\ sosTimers' = RemoveAt(sosTimers, i)
            /\ flashOn' = IF mounted THEN FALSE ELSE flashOn
            /\ isSosOn' = IF mounted THEN FALSE ELSE isSosOn
            /\ UNCHANGED sosFlips
    /\ vibrate' = 0
    /\ UNCHANGED <<permission, mounted, isStrobeOn, lastShake, data, isShake,
                   subLastShake, subIsShake, rFlashOn, rIsStrobeOn, rIsSosOn,
                   strobeTimers, strobeInterval, now>>

----------------------------------------------------------------------------
(* Manual toggle, shake toggle, teardown, time *)

\* setFlashOn(!flashOn); Vibration.vibrate(100), with the flashOn of the
\* render that created the handler, and the render that follows.
PressManual ==
    /\ press' = "manual"
    /\ MainUI
    /\ ManualEnabled
    /\ flashOn' = ~rFlashOn
    /\ vibrate' = PRESS_VIBRATION
    /\ UNCHANGED <<isStrobeOn, isSosOn, lastShake, isShake>>
    /\ CommitRender
    /\ UNCHANGED <<permission, mounted, data, strobeTimers, strobeInterval,
                   sosTimers, sosFlips, now>>

\* setIsShake(prev => !prev), the render, and the accelerometer effect.
PressShake ==
    /\ press' = "shake"
    /\ MainUI
    /\ isShake' = ~isShake
    /\ UNCHANGED <<flashOn, isStrobeOn, isSosOn, lastShake>>
    /\ CommitRender
    /\ vibrate' = 0
    /\ UNCHANGED <<permission, mounted, data, strobeTimers, strobeInterval,
                   sosTimers, sosFlips, now>>

\* The component unmounts: the cleanups of both effects run. Nothing clears
\* sosInterval.
Unmount ==
    /\ press' = "none"
    /\ mounted
    /\ mounted' = FALSE
    /\ strobeTimers' = StrobeCleanup(strobeTimers)
    /\ strobeInterval' = 0
    /\ vibrate' = 0
    /\ UNCHANGED <<permission, flashOn, isStrobeOn, isSosOn, lastShake, data, isShake,
                   subLastShake, subIsShake, rFlashOn, rIsStrobeOn, rIsSosOn,
                   sosTimers, sosFlips, now>>

\* A timer is due now.
TimerDue ==
    \/ \E i \in 1..Len(strobeTimers) : strobeTimers[i] <= now
    \/ \E i \in 1..Len(sosTimers) : sosTimers[i].due <= now

\* 100 ms pass: due timers have fired and pending renders have committed.
Tick ==
    /\ press' = "none"
    /\ now < MaxTime
    /\ ~TimerDue
    /\ ~(mounted /\ Stale)
    /\ now' = now + 1
    /\ vibrate' = 0
    /\ UNCHANGED <<permission, mounted, flashOn, isStrobeOn, isSosOn, lastShake, data,
                   isShake, subLastShake, subIsShake, rFlashOn, rIsStrobeOn, rIsSosOn,
                   strobeTimers, strobeInterval, sosTimers, sosFlips>>

\* <CameraView enableTorch={flashOn} />, rendered in the main interface only:
\* the physical torch is on.
Torch == MainUI /\ rFlashOn

Next ==
    \/ PermissionLoaded
    \/ RequestPermission
    \/ \E s \in Samples : Sample(s)
    \/ Render
    \/ PressStrobe
    \/ \E i \in 1..Len(strobeTimers) : StrobeFire(i)
    \/ PressSos
    \/ \E i \in 1..Len(sosTimers) : SosFire(i)
    \/ PressManual
    \/ PressShake
    \/ Unmount
    \/ Tick

Spec == Init /\ [][Next]_vars

\* The readings the listener takes for a shake.
ShakeSamples == {s \in Samples : OverThreshold(s)}

\* The steps of the screen while it stays mounted. Of the accelerometer
\* readings only the shakes are kept: the others do no more than overwrite
\* data, which no other step reads.
NextMounted ==
    \/ PermissionLoaded
    \/ RequestPermission
    \/ \E s \in ShakeSamples : Sample(s)
    \/ Render
    \/ PressStrobe
    \/ \E i \in 1..Len(strobeTimers) : StrobeFire(i)
    \/ PressSos
    \/ \E i \in 1..Len(sosTimers) : SosFire(i)
    \/ PressManual
    \/ PressShake
    \/ Tick

\* The mounted screen under a fair event loop: every due timer callback
\* runs, React commits every pending render, and time passes.
FairSpec ==
    /\ Init
    /\ [][NextMounted]_vars
    /\ WF_vars(\E i \in 1..Len(sosTimers) : SosFire(i))
    /\ WF_vars(\E i \in 1..Len(strobeTimers) : StrobeFire(i))
    /\ WF_vars(Render)
    /\ WF_vars(Tick)

TypeOK ==
    /\ permission \in {"loading", "denied", "granted"}
    /\ mounted \in BOOLEAN
    /\ flashOn \in BOOLEAN /\ isStrobeOn \in BOOLEAN /\ isSosOn \in BOOLEAN
    /\ isShake \in BOOLEAN /\ subIsShake \in BOOLEAN
    /\ rFlashOn \in BOOLEAN /\ rIsStrobeOn \in BOOLEAN /\ rIsSosOn \in BOOLEAN
    /\ lastShake \in 0..MaxTime /\ subLastShake \in 0..MaxTime
    /\ now \in StartTime..MaxTime
    /\ strobeInterval \in 0..Len(strobeTimers)
    /\ sosFlips \in 0..Len(MORSE_SOS)
    /\ vibrate \in {0, PRESS_VIBRATION, SHAKE_VIBRATION}
    /\ press \in {"none", "permission", "manual", "strobe", "sos", "shake"}

----------------------------------------------------------------------------
(* Properties *)

\* C1: the strobe flag and the S.O.S flag are never both true.
ModeExclusive == ~(isStrobeOn /\ isSosOn)

\* A step in which an S.O.S timer stops itself (clearInterval(sosInterval)).
SosStops == Len(sosTimers') < Len(sosTimers)

\* C2: every invocation of playSosSignal makes the S.O.S timer issue exactly
\* 9 flips: never more than 9, and the timer stops itself only after the 9th,
\* whatever the torch state and the mode at the invocation.
SosExactlyNineFlips ==
    [][ /\ sosFlips' <= Len(MORSE_SOS)
        /\ sosFlips' \in {sosFlips, sosFlips + 1, 0}
        /\ (sosFlips' = 0 /\ sosFlips # 0) => press' = "sos"
        /\ SosStops => sosFlips = 9 /\ sosFlips' = 9 ]_vars

\* An S.O.S sequence started while strobe was on has issued its 9 flips and
\* its timer has stopped.
SosNineFlipsDone ==
    /\ sosFlips = 9
    /\ sosTimers = <<>>
    /\ isStrobeOn
    /\ rIsSosOn

\* C3: the first firing is scheduled MORSE_SOS[0] after the invocation, and
\* after each flip the next firing is scheduled with the duration at the new
\* index: 300, 300, 300, 900, 900, 900, 300, 300, 300 ms.
SosDelaysFollowPattern ==
    [][ \A i \in 1..Len(sosTimers') :
           ( /\ (i > Len(sosTimers) \/ sosTimers'[i] # sosTimers[i])
             /\ sosTimers'[i].index < Len(MORSE_SOS) )
           => sosTimers'[i].due - now' = MORSE_SOS[sosTimers'[i].index + 1] ]_vars

\* C4: when the S.O.S sequence completes on the mounted screen, its timer is
\* cancelled, TorchState is false, the S.O.S flag is cleared and the control
\* state is Idle (neither strobe nor S.O.S active).
SosCompletesToIdle ==
    [][ (SosStops /\ mounted)
           => /\ sosTimers' = <<>>
              /\ ~flashOn'
              /\ ~isSosOn'
              /\ ~isStrobeOn' ]_vars

\* C5: while the S.O.S flag is true no step is a manual-toggle press, a
\* strobe-toggle press or an S.O.S-trigger press, so none of them changes
\* TorchState or a mode flag, and at most one S.O.S timer is ever live.
SosRejectsPresses ==
    /\ [](Len(sosTimers) <= 1)
    /\ [][ isSosOn => /\ press' \notin {"manual", "strobe", "sos"}
                      /\ vibrate' # PRESS_VIBRATION
                      /\ isStrobeOn' = isStrobeOn
                      /\ Len(sosTimers') <= Len(sosTimers) ]_vars

\* The S.O.S sequence is under way on the main interface, strobe running.
SosUnderWay ==
    /\ MainUI
    /\ isSosOn
    /\ isStrobeOn
    /\ Len(sosTimers) = 1
    /\ sosFlips = 4

\* The strobe timer fires once in every 100 ms: when time advances with
\* strobe on, the one timer has fired in this tick and is due in the next, and
\* each firing flips TorchState once.
StrobeTimerBody ==
    /\ (isStrobeOn /\ mounted /\ now' = now + 1) => strobeTimers = <<now + 1>>
    /\ (isStrobeOn /\ isStrobeOn' /\ mounted' /\ strobeTimers' # strobeTimers)
          => /\ strobeTimers = <<now>>
             /\ strobeTimers' = <<now + 1>>
             /\ flashOn' = ~flashOn

\* C6 (amended): while strobe mode is active the strobe timer flips
\* TorchState exactly once per 100 ms interval.
StrobeTimerOncePerInterval == [][StrobeTimerBody]_vars

\* C6 (as claimed): while strobe mode is active TorchState is flipped exactly
\* once per 100 ms interval: the strobe timer flips it once per interval and
\* no other step flips it.
StrobeFlipsOncePerInterval ==
    [][ /\ StrobeTimerBody
        /\ (isStrobeOn /\ isStrobeOn' /\ flashOn' # flashOn)
              => strobeTimers' # strobeTimers ]_vars

\* Strobe has been running for some intervals and has just turned the torch on.
StrobeRunning ==
    /\ isStrobeOn
    /\ strobeTimers = <<now + 1>>
    /\ now >= StartTime + 3
    /\ flashOn
    /\ ~rFlashOn

\* Deactivating strobe cancels the strobe timer and forces TorchState false.
StrobeOffBody ==
    (isStrobeOn /\ ~isStrobeOn') => (strobeTimers' = <<>> /\ ~flashOn')

\* C7 (amended): when strobe mode is deactivated the strobe timer is
\* cancelled and TorchState is forced to false, and afterwards TorchState
\* changes only when the user acts again: by a press or by a detected shake.
StrobeOffQuietButShake ==
    [][ /\ StrobeOffBody
        /\ (~isStrobeOn /\ ~isStrobeOn' /\ ~isSosOn /\ flashOn' # flashOn)
              => (press' \in {"manual", "strobe", "sos"}
                    \/ vibrate' = SHAKE_VIBRATION) ]_vars

\* C7 (as claimed): ... and afterwards no torch toggle occurs until the user
\* presses the manual toggle, the strobe toggle or the S.O.S trigger.
StrobeOffQuiet ==
    [][ /\ StrobeOffBody
        /\ (~isStrobeOn /\ ~isStrobeOn' /\ ~isSosOn /\ flashOn' # flashOn)
              => press' \in {"manual", "strobe", "sos"} ]_vars

\* Strobe has just been deactivated by the strobe toggle.
StrobeJustOff ==
    /\ press = "strobe"
    /\ ~isStrobeOn
    /\ strobeTimers = <<>>
    /\ ~flashOn
    /\ now >= StartTime + 2

\* Magnitude above 1.5: x^2 + y^2 + z^2 > 2.25, in tenths squared.
AboveOnePointFive(s) == s.x * s.x + s.y * s.y + s.z * s.z > 225

\* A step that delivers an accelerometer sample and shows it: the stored
\* MotionSample changes or the shake pulse is issued.
SampleStep == data' # data \/ vibrate' = SHAKE_VIBRATION

\* The step emits a shake event.
Emits == vibrate' = SHAKE_VIBRATION /\ flashOn' = ~flashOn /\ lastShake' = now

\* The step emits nothing: TorchState, timestamp and haptics untouched.
EmitsNothing == vibrate' = 0 /\ flashOn' = flashOn /\ lastShake' = lastShake

\* C8: of two qualifying samples less than 1000 ms apart only the first
\* emits, and a qualifying sample 1000 ms or more after the last emitted
\* shake event (exactly 1000 ms included) emits again.
DebounceWindow ==
    [][ (SampleStep /\ AboveOnePointFive(data') /\ isShake /\ subIsShake)
           => IF now - lastShake < SHAKE_DELAY THEN EmitsNothing ELSE Emits ]_vars

\* The sample qualifies: magnitude, debounce since the last emitted shake
\* event, shake detection enabled.
Qualifies(s) == AboveOnePointFive(s) /\ now - lastShake > SHAKE_DELAY /\ isShake

\* C9: a qualifying sample causes exactly one flip, one 200 ms pulse and one
\* timestamp update, also before the listener has been re-subscribed; a
\* sample that does not qualify changes nothing but the stored MotionSample.
OneEventPerQualifyingSample ==
    [][ SampleStep
           => IF Qualifies(data') THEN Emits ELSE EmitsNothing ]_vars

\* C10: a sample of magnitude at most 1.5 fires no shake event: TorchState,
\* the timestamp and the haptics are unchanged, whatever the mode, the
\* debounce state and the shake-enable flag.
NoShakeAtOrBelowThreshold ==
    [][ (SampleStep /\ ~AboveOnePointFive(data')) => EmitsNothing ]_vars

\* A sample of magnitude exactly 1.5 has just been delivered while shake
\* detection was enabled, the debounce had elapsed and strobe was running.
BoundarySampleDelivered ==
    /\ data = [x |-> -9, y |-> 12, z |-> 0]
    /\ ~AboveOnePointFive(data)
    /\ subIsShake
    /\ DebounceElapsed
    /\ isStrobeOn
    /\ vibrate = 0

\* C11: while shake detection is disabled no shake event fires, for a sample
\* of any magnitude: no pulse, no timestamp update, no flip by a sample.
NoShakeWhileDisabled ==
    [][ ~isShake => /\ vibrate' # SHAKE_VIBRATION
                    /\ lastShake' = lastShake
                    /\ (data' # data => flashOn' = flashOn) ]_vars

\* The shake (2, 2, 2) was delivered with shake detection disabled, the
\* debounce long elapsed, and emitted nothing.
ShakeSampleWhileDisabled ==
    /\ ~isShake
    /\ data = [x |-> 20, y |-> 20, z |-> 20]
    /\ lastShake = 0
    /\ mounted

\* C12: once the screen is torn down no timer remains live: the strobe
\* interval and the S.O.S interval are cancelled.
NoTimerAfterTeardown ==
    ~mounted => (strobeTimers = <<>> /\ sosTimers = <<>>)

\* C13: while the strobe flag or the S.O.S flag is true no step is a
\* manual-toggle press.
ManualOnlyInIdle ==
    [][ (isStrobeOn \/ isSosOn)
           => (press' # "manual" /\ vibrate' # PRESS_VIBRATION) ]_vars

\* Strobe is running on the main interface, S.O.S is not.
StrobeOnMainUI ==
    /\ MainUI
    /\ isStrobeOn
    /\ ~isSosOn
    /\ rIsStrobeOn
    /\ now >= StartTime + 1

\* C15: while camera permission is not granted the only press that happens
\* is the permission request and the physical torch is never on; the manual
\* toggle, strobe toggle, S.O.S trigger and shake toggle are pressed only
\* once permission is granted.
BlockedUntilGranted ==
    /\ [](permission # "granted" => ~Torch)
    /\ [][ /\ permission # "granted" => press' \in {"none", "permission"}
           /\ press' \in {"manual", "strobe", "sos", "shake"}
                 => permission = "granted" ]_vars

\* Permission has been requested again and denied again, after a shake had
\* set flashOn on the permission screen.
DeniedAgain ==
    /\ permission = "denied"
    /\ press = "permission"
    /\ flashOn
    /\ rFlashOn

\* C16: with shake detection enabled and the debounce elapsed, a sample of
\* magnitude over 1.5 emits a shake event in Idle, in Strobe and in S.O.S
\* alike, and no sample changes the strobe flag or the S.O.S flag.
ShakeInEveryMode ==
    [][ SampleStep
           => /\ isStrobeOn' = isStrobeOn
              /\ isSosOn' = isSosOn
              /\ (AboveOnePointFive(data') /\ isShake /\ now - lastShake > SHAKE_DELAY)
                    => Emits ]_vars

\* A shake event has just fired while the S.O.S sequence and strobe ran.
ShakeDuringSosAndStrobe ==
    /\ vibrate = SHAKE_VIBRATION
    /\ isSosOn
    /\ isStrobeOn
    /\ sosFlips >= 1

\* C17: before teardown, one strobe timer is live if the strobe flag is true
\* and none if it is false.
StrobeTimerIffStrobe ==
    mounted => Len(strobeTimers) = (IF isStrobeOn THEN 1 ELSE 0)

\* Strobe has just been switched on, not for the first tick of the run.
StrobeJustOn ==
    /\ press = "strobe"
    /\ isStrobeOn
    /\ strobeTimers = <<now + STROBE_INTERVAL>>
    /\ strobeInterval = 1
    /\ now >= StartTime + 2

ManualPressNegates ==
    [][ press' = "manual" => flashOn' = ~flashOn ]_vars

\* Every live S.O.S timer reaches its completing firing within the horizon.
SosHasRoom ==
    \A i \in 1..Len(sosTimers) :
        sosTimers[i].due + (Len(MORSE_SOS) - sosTimers[i].index) * sosTimers[i].delay
            <= MaxTime

\* C14: with the timers, the renders and the clock fair, from every state of
\* the mounted screen in which the S.O.S flag is true (and the sequence ends
\* within the horizon) a state is reached in which the flag is false, whatever
\* presses, strobe ticks and shake events interleave.
SosSelfTerminates ==
    (isSosOn /\ mounted /\ SosHasRoom) ~> (~isSosOn \/ ~mounted)

\* An S.O.S sequence started in Idle has ended by itself, back in Idle.
SosEndedInIdle ==
    /\ mounted
    /\ ~isSosOn
    /\ ~isStrobeOn
    /\ sosFlips = 9
    /\ sosTimers = <<>>
    /\ ~flashOn

====
